---------------------------- MODULE Spec2Model ----------------------------
(***************************************************************************)
(* Family-DashBoard: the OnePay household ledger.                          *)
(*                                                                         *)
(* Two source variants are modelled:                                       *)
(*   src/script/family_dashboard_onepay.py   (variant "script")            *)
(*   src/scripts/family_dashboard_onepay.py  (variant "scripts")           *)
(*                                                                         *)
(* A Python str is a tuple of one-character strings.  A Python float is    *)
(* an IEEE-754 binary64 number, modelled exactly: a record [s, m, e] of    *)
(* value (-1)^s * m * 2^e whose mantissa m is an arbitrary-precision       *)
(* natural (little-endian limbs) of exactly MantBits bits, or a zero.      *)
(* Every arithmetic step rounds to nearest, ties to even.  The exponent    *)
(* range (overflow, subnormals) and inf/nan are outside the inputs used.   *)
(*                                                                         *)
(* Operators take intermediate values as parameters rather than naming     *)
(* them in LET, which keeps the evaluation trees of the actions small.     *)
(***************************************************************************)
EXTENDS Integers, Sequences, FiniteSets, TLC

(***************************************************************************)
(* Arbitrary-precision naturals: little-endian sequences of limbs in       *)
(* 0..LimbBase-1 whose last limb is not zero; <<>> is zero.                *)
(***************************************************************************)
LimbBits == 14

RECURSIVE Pow2(_)
Pow2(n) == IF n = 0 THEN 1 ELSE 2 * Pow2(n - 1)

LimbBase == Pow2(LimbBits)

RECURSIVE BNorm(_)
BNorm(a) ==
    IF a = <<>> THEN <<>>
    ELSE IF a[Len(a)] = 0 THEN BNorm(SubSeq(a, 1, Len(a) - 1))
    ELSE a

RECURSIVE BFromInt(_)
BFromInt(n) ==
    IF n = 0 THEN <<>> ELSE <<n % LimbBase>> \o BFromInt(n \div LimbBase)

RECURSIVE BToInt(_)
BToInt(a) ==
    IF a = <<>> THEN 0 ELSE Head(a) + LimbBase * BToInt(Tail(a))

Limb(a, i) == IF i <= Len(a) THEN a[i] ELSE 0

MaxOf(x, y) == IF x >= y THEN x ELSE y

RECURSIVE BAddFrom(_, _, _, _)
BAddFrom(a, b, i, c) ==
    IF i > Len(a) /\ i > Len(b)
    THEN (IF c = 0 THEN <<>> ELSE <<c>>)
    ELSE <<(Limb(a, i) + Limb(b, i) + c) % LimbBase>>
             \o BAddFrom(a, b, i + 1, (Limb(a, i) + Limb(b, i) + c) \div LimbBase)

BAdd(a, b) == BAddFrom(a, b, 1, 0)

\* a - b for a >= b
RECURSIVE BSubFrom(_, _, _, _)
BSubFrom(a, b, i, br) ==
    IF i > Len(a) THEN <<>>
    ELSE IF Limb(a, i) - Limb(b, i) - br < 0
    THEN <<Limb(a, i) - Limb(b, i) - br + LimbBase>> \o BSubFrom(a, b, i + 1, 1)
    ELSE <<Limb(a, i) - Limb(b, i) - br>> \o BSubFrom(a, b, i + 1, 0)

BSub(a, b) == BNorm(BSubFrom(a, b, 1, 0))

\* -1, 0, 1 as a < b, a = b, a > b
RECURSIVE BCmpFrom(_, _, _)
BCmpFrom(a, b, i) ==
    IF i = 0 THEN 0
    ELSE IF a[i] < b[i] THEN -1
    ELSE IF a[i] > b[i] THEN 1
    ELSE BCmpFrom(a, b, i - 1)

BCmp(a, b) ==
    IF Len(a) < Len(b) THEN -1
    ELSE IF Len(a) > Len(b) THEN 1
    ELSE BCmpFrom(a, b, Len(a))

\* a * k for 0 <= k < LimbBase
RECURSIVE BMulFrom(_, _, _, _)
BMulFrom(a, k, i, c) ==
    IF i > Len(a)
    THEN (IF c = 0 THEN <<>> ELSE <<c>>)
    ELSE <<(a[i] * k + c) % LimbBase>>
             \o BMulFrom(a, k, i + 1, (a[i] * k + c) \div LimbBase)

BMulSmall(a, k) == IF k = 0 THEN <<>> ELSE BMulFrom(a, k, 1, 0)

\* floor(a / k) and a mod k for 0 < k < LimbBase, from the top limb down
RECURSIVE BDivFrom(_, _, _, _, _)
BDivFrom(a, k, i, r, q) ==
    IF i = 0 THEN [q |-> BNorm(q), r |-> r]
    ELSE BDivFrom(a, k, i - 1, (r * LimbBase + a[i]) % k,
                  <<(r * LimbBase + a[i]) \div k>> \o q)

BDivSmall(a, k) == BDivFrom(a, k, Len(a), 0, <<>>)

Zeros(n) == [i \in 1..n |-> 0]

\* a * 2^n
BShl(a, n) ==
    IF a = <<>> THEN <<>>
    ELSE Zeros(n \div LimbBits) \o BMulSmall(a, Pow2(n % LimbBits))

\* floor(a / 2^n)
BShr(a, n) ==
    IF n \div LimbBits >= Len(a) THEN <<>>
    ELSE BDivSmall(SubSeq(a, n \div LimbBits + 1, Len(a)), Pow2(n % LimbBits)).q

RECURSIVE IntBitLen(_)
IntBitLen(n) == IF n = 0 THEN 0 ELSE 1 + IntBitLen(n \div 2)

BBitLen(a) ==
    IF a = <<>> THEN 0 ELSE LimbBits * (Len(a) - 1) + IntBitLen(a[Len(a)])

BIsOdd(a) == a # <<>> /\ a[1] % 2 = 1

\* q or q + 1, as the discarded part compares (c) with one half
BRoundUp(q, c, sticky) ==
    IF c > 0 \/ (c = 0 /\ (sticky \/ BIsOdd(q))) THEN BAdd(q, <<1>>) ELSE q

BRoundQuot(a, n, sticky, q) ==
    BRoundUp(q, BCmp(BSub(a, BShl(q, n)), BShl(<<1>>, n - 1)), sticky)

\* a / 2^n rounded to nearest, ties to even; sticky says that a nonzero
\* part below a was already discarded
BShrRound(a, n, sticky) ==
    IF n = 0 THEN a ELSE BRoundQuot(a, n, sticky, BShr(a, n))

(***************************************************************************)
(* Python float: IEEE-754 binary64, round to nearest, ties to even.        *)
(***************************************************************************)
MantBits == 53

\* 0.0 and -0.0
FZeroS(s) == [s |-> s, m |-> <<>>, e |-> 0]

FZero == FZeroS(0)

\* a rounded mantissa of MantBits + 1 bits is a power of two
FNormRounded(s, e, r) ==
    IF BBitLen(r) > MantBits
    THEN [s |-> s, m |-> BShr(r, 1), e |-> e + 1]
    ELSE [s |-> s, m |-> r, e |-> e]

FNormLen(s, m, e, sticky, L) ==
    IF L <= MantBits
    THEN [s |-> s, m |-> BShl(m, MantBits - L), e |-> e - (MantBits - L)]
    ELSE FNormRounded(s, e + (L - MantBits), BShrRound(m, L - MantBits, sticky))

\* the float nearest to (-1)^s * m * 2^e (sticky: a nonzero part below m
\* was discarded), its mantissa brought to exactly MantBits bits
FNorm(s, m, e, sticky) ==
    IF m = <<>> THEN FZeroS(s) ELSE FNormLen(s, m, e, sticky, BBitLen(m))

FIsZero(x) == x.m = <<>>

FGtZero(x) == x.m # <<>> /\ x.s = 0

FLtZero(x) == x.m # <<>> /\ x.s = 1

FLeZero(x) == ~FGtZero(x)

FNeg(x) == [x EXCEPT !.s = 1 - x.s]

FAbs(x) == [x EXCEPT !.s = 0]

\* x == y
FEq(x, y) == (FIsZero(x) /\ FIsZero(y)) \/ x = y

\* sign and magnitude of (-1)^sx * mx + (-1)^sy * my, c comparing mx and my
FSumMag(sx, sy, mx, my, c) ==
    IF sx = sy THEN [s |-> sx, m |-> BAdd(mx, my)]
    ELSE IF c = 0 THEN [s |-> 0, m |-> <<>>]
    ELSE IF c > 0 THEN [s |-> sx, m |-> BSub(mx, my)]
    ELSE [s |-> sy, m |-> BSub(my, mx)]

FNormSum(sm, e) == FNorm(sm.s, sm.m, e, FALSE)

FAddMant(sx, sy, mx, my, e) == FNormSum(FSumMag(sx, sy, mx, my, BCmp(mx, my)), e)

FAddAligned(x, y, e) ==
    FAddMant(x.s, y.s, BShl(x.m, x.e - e), BShl(y.m, y.e - e), e)

\* x + y, correctly rounded
FAdd(x, y) ==
    IF FIsZero(x) /\ FIsZero(y) THEN FZeroS(IF x.s = 1 /\ y.s = 1 THEN 1 ELSE 0)
    ELSE IF FIsZero(x) THEN y
    ELSE IF FIsZero(y) THEN x
    ELSE FAddAligned(x, y, IF x.e <= y.e THEN x.e ELSE y.e)

\* x - y, correctly rounded
FSub(x, y) == FAdd(x, FNeg(y))

\* floor(a / 10^f), and whether anything was cut off
RECURSIVE BDivPow10(_, _, _), BDivPow10Next(_, _, _)
BDivPow10(a, f, sticky) ==
    IF f = 0 THEN [q |-> a, sticky |-> sticky]
    ELSE BDivPow10Next(BDivSmall(a, 10), f, sticky)

BDivPow10Next(d, f, sticky) == BDivPow10(d.q, f - 1, sticky \/ d.r # 0)

FFromQuot(s, k, n) == FNorm(s, n.q, 0 - k, n.sticky)

FFromScaled(s, d, f, k) == FFromQuot(s, k, BDivPow10(BShl(d, k), f, FALSE))

\* the float nearest to (-1)^s * d / 10^f for a natural d
FFromDecimal(s, d, f) ==
    IF d = <<>> THEN FZeroS(s) ELSE FFromScaled(s, d, f, MantBits + 3 + 4 * f)

\* |x| in hundredths, rounded to nearest, ties to even: the digits that
\* '%.2f' prints and that round(x, 2) keeps
FHundredths(x) ==
    IF FIsZero(x) THEN <<>>
    ELSE IF x.e >= 0 THEN BShl(BMulSmall(x.m, 100), x.e)
    ELSE BShrRound(BMulSmall(x.m, 100), 0 - x.e, FALSE)

\* round(x, 2)
Round2(x) == FFromDecimal(x.s, FHundredths(x), 2)

(***************************************************************************)
(* Python str: tuples of one-character strings.                            *)
(***************************************************************************)
DigitChars == <<"0", "1", "2", "3", "4", "5", "6", "7", "8", "9">>

UpperChars ==
    <<"A", "B", "C", "D", "E", "F", "G", "H", "I", "J", "K", "L", "M",
      "N", "O", "P", "Q", "R", "S", "T", "U", "V", "W", "X", "Y", "Z">>

LowerChars ==
    <<"a", "b", "c", "d", "e", "f", "g", "h", "i", "j", "k", "l", "m",
      "n", "o", "p", "q", "r", "s", "t", "u", "v", "w", "x", "y", "z">>

IsDigit(c) == \E i \in 1..10 : DigitChars[i] = c

DigitVal(c) == (CHOOSE i \in 1..10 : DigitChars[i] = c) - 1

AllDigits(s) == \A i \in 1..Len(s) : IsDigit(s[i])

IsSpace(c) == c = " "

\* s.replace(ch, "")
Remove(s, ch) == SelectSeq(s, LAMBDA c : c # ch)

RECURSIVE LStrip(_)
LStrip(s) ==
    IF s # <<>> /\ IsSpace(Head(s)) THEN LStrip(Tail(s)) ELSE s

RECURSIVE RStrip(_)
RStrip(s) ==
    IF s # <<>> /\ IsSpace(s[Len(s)]) THEN RStrip(SubSeq(s, 1, Len(s) - 1)) ELSE s

\* s.strip()
Strip(s) == RStrip(LStrip(s))

LowerChar(c) ==
    IF \E i \in 1..26 : UpperChars[i] = c
    THEN LowerChars[CHOOSE i \in 1..26 : UpperChars[i] = c]
    ELSE c

\* s.lower()
Lower(s) == [i \in 1..Len(s) |-> LowerChar(s[i])]

RECURSIVE DigitsToNat(_, _)
DigitsToNat(s, acc) ==
    IF s = <<>> THEN acc
    ELSE DigitsToNat(Tail(s), BAdd(BMulSmall(acc, 10), BFromInt(DigitVal(Head(s)))))

RECURSIVE NatToDigits(_), NatToDigitsNext(_)
NatToDigits(n) ==
    IF n = <<>> THEN <<>> ELSE NatToDigitsNext(BDivSmall(n, 10))

NatToDigitsNext(d) == NatToDigits(d.q) \o <<DigitChars[d.r + 1]>>

\* the digits before and after the point at position dot
SyntaxParts(neg, body, onePoint, dot) ==
    [ok   |-> /\ onePoint
              /\ Len(body) - (IF dot <= Len(body) THEN 1 ELSE 0) >= 1
              /\ AllDigits(SubSeq(body, 1, dot - 1))
              /\ AllDigits(SubSeq(body, dot + 1, Len(body))),
     neg  |-> neg,
     int  |-> SubSeq(body, 1, dot - 1),
     frac |-> SubSeq(body, dot + 1, Len(body))]

SyntaxPoints(neg, body, dots) ==
    SyntaxParts(neg, body, Cardinality(dots) <= 1,
                IF dots = {} THEN Len(body) + 1 ELSE CHOOSE i \in dots : TRUE)

SyntaxBody(neg, body) ==
    SyntaxPoints(neg, body, {i \in 1..Len(body) : body[i] = "."})

SyntaxSign(t) ==
    SyntaxBody(t # <<>> /\ Head(t) = "-",
               IF t # <<>> /\ Head(t) \in {"-", "+"} THEN Tail(t) ELSE t)

\* what float() accepts among texts of digits, signs, points, blanks and
\* letters: the text stripped, an optional sign, digits with at most one
\* point and at least one digit
FloatSyntax(s) == SyntaxSign(Strip(s))

ValueError == [ok |-> FALSE, v |-> FZero]

FloatOf(p) ==
    IF ~p.ok THEN ValueError
    ELSE [ok |-> TRUE,
          v  |-> FFromDecimal(IF p.neg THEN 1 ELSE 0,
                              DigitsToNat(p.int \o p.frac, <<>>),
                              Len(p.frac))]

\* float(s): the value, or a ValueError
float(s) == FloatOf(FloatSyntax(s))

FormatPadded(s, d) ==
    (IF s = 1 THEN <<"-">> ELSE <<>>)
        \o SubSeq(d, 1, Len(d) - 2) \o <<".">> \o SubSeq(d, Len(d) - 1, Len(d))

FormatDigits(s, d) ==
    FormatPadded(s, IF Len(d) >= 3 THEN d ELSE [i \in 1..(3 - Len(d)) |-> "0"] \o d)

\* f"{x:.2f}"
Format2f(x) == FormatDigits(x.s, NatToDigits(FHundredths(x)))

parse_amount(s) == float(Strip(Remove(Remove(s, "$"), ",")))

(***************************************************************************)
(* Bounds of the model.                                                    *)
(***************************************************************************)
\* balances 0.00 .. MaxBalanceCents/100, paychecks 0.00 .. MaxTypicalCents/100
MaxBalanceCents == 40

MaxTypicalCents == 12

\* amounts below zero, down to -MaxNegCents/100
MaxNegCents == 1

\* ledgers handed to the aggregate computation have at most MaxRows rows
MaxRows == 3

\* the ledger file grows to at most MaxStore rows
MaxStore == 2

\* further amounts, in cents: the documented scenarios and the iteration cap
ScenarioBalanceCents == {65000, 0 - 1000, 250}

ScenarioTypicalCents == {30000, 500}

FromCents(c) ==
    IF c < 0 THEN FFromDecimal(1, BFromInt(0 - c), 2)
    ELSE FFromDecimal(0, BFromInt(c), 2)

BalanceInputs ==
    {FromCents(c) : c \in ((0 - MaxNegCents)..MaxBalanceCents) \cup ScenarioBalanceCents}

TypicalInputs ==
    {FromCents(c) : c \in ((0 - MaxNegCents)..MaxTypicalCents) \cup ScenarioTypicalCents}

(***************************************************************************)
(* Ledger rows: what csv.DictReader yields for a line of the ledger file,  *)
(* and what the user types at the prompts.                                 *)
(***************************************************************************)
S_paycheck == <<"p", "a", "y", "c", "h", "e", "c", "k">>

S_advance == <<"a", "d", "v", "a", "n", "c", "e">>

S_bill == <<"b", "i", "l", "l">>

S_spend == <<"s", "p", "e", "n", "d">>

S_gift == <<"g", "i", "f", "t">>

S_Bill_padded == <<" ", "B", "i", "l", "l", " ">>

S_PAYCHECK == <<"P", "A", "Y", "C", "H", "E", "C", "K">>

S_1000 == <<"1", "0", "0", "0", ".", "0", "0">>

S_dollar_1000 == <<"$", "1", ",", "0", "0", "0", ".", "0", "0">>

S_300 == <<"3", "0", "0", ".", "0", "0">>

S_900 == <<"9", "0", "0", ".", "0", "0">>

S_150 == <<"1", "5", "0", ".", "0", "0">>

S_5 == <<"5", ".", "0", "0">>

S_1 == <<"1", ".", "0", "0">>

S_abc == <<"a", "b", "c">>

S_neg5 == <<"-", "5">>

S_0 == <<"0">>

S_1e16 ==
    <<"1", "0", "0", "0", "0", "0", "0", "0", "0", "0", "0", "0", "0", "0",
      "0", "0", "0", ".", "0", "0">>

S_date == <<"2", "0", "2", "4", "-", "0", "1", "-", "0", "5">>

KINDS == {S_paycheck, S_advance, S_bill, S_spend}

Row(kind, amount) ==
    [date |-> S_date, kind |-> kind, amount |-> amount, note |-> <<>>]

RowInputs ==
    { Row(S_paycheck, S_1000), Row(S_advance, S_300), Row(S_Bill_padded, S_900),
      Row(S_spend, S_150), Row(S_PAYCHECK, S_dollar_1000),
      Row(S_gift, S_5), Row(S_gift, S_abc), Row(S_bill, S_abc),
      Row(S_advance, S_1e16), Row(S_paycheck, S_1e16), Row(S_advance, S_1) }

LedgerInputs == UNION {[1..n -> RowInputs] : n \in 0..MaxRows}

Variants == {"script", "scripts"}

KindTyped == {S_advance, S_PAYCHECK, S_gift}

AmountTyped == {S_300, S_dollar_1000, S_neg5, S_abc}

TypicalTyped == {<<>>, S_abc, S_300}

NoteTyped == {<<>>}

DateTyped == {<<>>, S_date}

\* datetime.now().strftime("%Y-%m-%d")
Today == S_date

(***************************************************************************)
(* State.                                                                  *)
(***************************************************************************)
VARIABLES
    \* the source variant that runs
    variant,
    \* paychecks_to_green: arguments, locals, position, returned tuple
    balance, typical_paycheck, remaining, checks, pc, result,
    \* compute_balances / compute_net: argument, loop position, the four
    \* running totals, how the call ended, returned tuple
    rows, idx, totals, aggState, aggResult,
    \* the program run: sys.stdin.isatty(), the rows of family_ledger.csv,
    \* where the process is, the menu choice served last, what was typed
    \* at the add-entry prompts, what the last choice printed
    tty, store, prog, lastOp, typedKind, typedAmount, shown

greenVars == <<balance, typical_paycheck, remaining, checks, pc, result>>

aggVars == <<rows, idx, totals, aggState, aggResult>>

menuVars == <<tty, store, prog, lastOp, typedKind, typedAmount, shown>>

vars == <<variant, greenVars, aggVars, menuVars>>

\* a local that is not bound yet, a function that has not returned yet,
\* nothing printed
Unset == [unset |-> TRUE]

(***************************************************************************)
(* paychecks_to_green (the same text in both variants)                     *)
(***************************************************************************)
\* the safety break of the loop
MaxChecks == 200

\* the early returns, the second comparing with < instead of <=
NoProjectionStrict(b, t) == FLeZero(b) \/ FLtZero(t)

\* the two early returns
NoProjection(b, t) == FLeZero(b) \/ FLeZero(t)

\* one pass through the loop body
LoopBody(r, c, t) ==
    [remaining |-> FSub(r, t), checks |-> c + 1, brk |-> c + 1 > MaxChecks]

RECURSIVE WhileRemaining(_, _, _), AfterBody(_, _)
WhileRemaining(r, c, t) ==
    IF ~FGtZero(r) THEN [remaining |-> r, checks |-> c]
    ELSE AfterBody(LoopBody(r, c, t), t)

AfterBody(b, t) ==
    IF b.brk THEN [remaining |-> b.remaining, checks |-> b.checks]
    ELSE WhileRemaining(b.remaining, b.checks, t)

\* return checks, round(remaining, 2)
ReturnRounded(w) == [checks |-> w.checks, remaining |-> Round2(w.remaining)]

paychecks_to_green(b, t) ==
    IF NoProjection(b, t) THEN [checks |-> 0, remaining |-> b]
    ELSE ReturnRounded(WhileRemaining(b, 0, t))

\* the same function, one statement group at a time
PTG_Enter ==
    /\ pc = "enter"
    /\ IF NoProjection(balance, typical_paycheck)
       THEN /\ result' = [checks |-> 0, remaining |-> balance]
            /\ pc' = "done"
            /\ UNCHANGED <<remaining, checks>>
       ELSE /\ remaining' = balance
            /\ checks' = 0
            /\ pc' = "while"
            /\ UNCHANGED result
    /\ UNCHANGED <<balance, typical_paycheck, variant, aggVars, menuVars>>

PTG_Iterate ==
    /\ pc = "while"
    /\ FGtZero(remaining)
    /\ \E b \in {LoopBody(remaining, checks, typical_paycheck)} :
          /\ remaining' = b.remaining
          /\ checks' = b.checks
          /\ pc' = IF b.brk THEN "return" ELSE "while"
    /\ UNCHANGED <<balance, typical_paycheck, result, variant, aggVars, menuVars>>

PTG_LoopExit ==
    /\ pc = "while"
    /\ ~FGtZero(remaining)
    /\ pc' = "return"
    /\ UNCHANGED <<balance, typical_paycheck, remaining, checks, result,
                   variant, aggVars, menuVars>>

PTG_Return ==
    /\ pc = "return"
    /\ result' = ReturnRounded([checks |-> checks, remaining |-> remaining])
    /\ pc' = "done"
    /\ UNCHANGED <<balance, typical_paycheck, remaining, checks,
                   variant, aggVars, menuVars>>

(***************************************************************************)
(* compute_balances (variant "script") and compute_net (variant "scripts") *)
(***************************************************************************)
Fields == {"bal", "income", "bills", "spend"}

ZeroTotals == [f \in Fields |-> FZero]

\* row["kind"].strip().lower()
RowKind(row) == Lower(Strip(row.kind))

\* parse_amount(row["amount"]) with a ValueError swallowed as 0.0
RowAmountOrZero(row) == [ok |-> TRUE, v |-> parse_amount(row.amount).v]

\* amt = parse_amount(row["amount"])
RowAmount(row) == parse_amount(row.amount)

\* the if/elif chain of compute_balances: +1 for "+= amt", -1 for "-= amt"
compute_balances_kind(kind) ==
    IF kind = S_advance
    THEN [bal |-> 1, income |-> 0, bills |-> 0, spend |-> 0]
    ELSE IF kind = S_paycheck
    THEN [bal |-> 0 - 1, income |-> 1, bills |-> 0, spend |-> 0]
    ELSE IF kind = S_bill
    THEN [bal |-> 0, income |-> 0, bills |-> 1, spend |-> 0]
    ELSE IF kind = S_spend
    THEN [bal |-> 0, income |-> 0, bills |-> 0, spend |-> 1]
    ELSE [bal |-> 0, income |-> 0, bills |-> 0, spend |-> 0]

\* the if/elif chain of compute_net (bal is its net)
compute_net_kind(kind) ==
    IF kind = S_advance
    THEN [bal |-> 0 - 1, income |-> 0, bills |-> 0, spend |-> 0]
    ELSE IF kind = S_paycheck
    THEN [bal |-> 1, income |-> 1, bills |-> 0, spend |-> 0]
    ELSE IF kind = S_bill
    THEN [bal |-> 0 - 1, income |-> 0, bills |-> 1, spend |-> 0]
    ELSE IF kind = S_spend
    THEN [bal |-> 0 - 1, income |-> 0, bills |-> 0, spend |-> 1]
    ELSE [bal |-> 0, income |-> 0, bills |-> 0, spend |-> 0]

\* x += amt, x -= amt, or x left alone
Accumulate(x, sign, amt) ==
    IF sign = 0 THEN x ELSE FAdd(x, IF sign = 1 THEN amt ELSE FNeg(amt))

ApplyKind(t, effect, amt) == [f \in Fields |-> Accumulate(t[f], effect[f], amt)]

\* one pass through the loop body: the new totals, or the ValueError of
\* parse_amount, which nothing catches
RowApply(v, t, kind, amt) ==
    IF ~amt.ok THEN [raised |-> TRUE, totals |-> t]
    ELSE [raised |-> FALSE,
          totals |-> ApplyKind(t, IF v = "script" THEN compute_balances_kind(kind)
                                  ELSE compute_net_kind(kind), amt.v)]

RowStep(v, t, row) == RowApply(v, t, RowKind(row), RowAmount(row))

\* the return statement
RoundTotals(t) == [f \in Fields |-> Round2(t[f])]

RECURSIVE FoldRows(_, _, _, _), FoldNext(_, _, _, _)
FoldRows(v, rs, i, t) ==
    IF i > Len(rs) THEN [raised |-> FALSE, ret |-> RoundTotals(t)]
    ELSE FoldNext(v, rs, i, RowStep(v, t, rs[i]))

FoldNext(v, rs, i, st) ==
    IF st.raised THEN [raised |-> TRUE, ret |-> Unset]
    ELSE FoldRows(v, rs, i + 1, st.totals)

\* the whole call: compute_balances(rs) for "script", compute_net(rs) for
\* "scripts"
Aggregate(v, rs) == FoldRows(v, rs, 1, ZeroTotals)

\* the same call, one row at a time
Agg_Row ==
    /\ aggState = "running"
    /\ idx <= Len(rows)
    /\ \E st \in {RowStep(variant, totals, rows[idx])} :
          IF st.raised
          THEN /\ aggState' = "ValueError"
               /\ UNCHANGED <<idx, totals>>
          ELSE /\ totals' = st.totals
               /\ idx' = idx + 1
               /\ UNCHANGED aggState
    /\ UNCHANGED <<rows, aggResult, variant, greenVars, menuVars>>

Agg_Return ==
    /\ aggState = "running"
    /\ idx > Len(rows)
    /\ aggResult' = RoundTotals(totals)
    /\ aggState' = "returned"
    /\ UNCHANGED <<rows, idx, totals, variant, greenVars, menuVars>>

(***************************************************************************)
(* The program: module-level names, dashboard, prompts, menu loop.         *)
(***************************************************************************)
\* the functions each source file defines at module level
DefinedNames(v) ==
    {"ensure_ledger_exists", "read_ledger", "append_entry", "parse_amount",
     "paychecks_to_green", "money_dashboard", "prompt_add_entry",
     "list_recent", "main"}
        \cup (IF v = "script" THEN {"compute_balances", "status_onepay"}
              ELSE {"compute_net", "status_from_net"})

status_onepay(b) ==
    IF FGtZero(b) THEN [label |-> "behind", amount |-> Format2f(b)]
    ELSE IF FIsZero(b) THEN [label |-> "green", amount |-> S_0]
    ELSE [label |-> "buffer", amount |-> Format2f(FAbs(b))]

\* parse_amount(input(...) or "0"), a ValueError giving 0.0
ProjectionInput(typed) ==
    parse_amount(IF typed = <<>> THEN S_0 ELSE typed).v

DashboardError(e) ==
    [err |-> e, status |-> Unset, totals |-> Unset, cash_after |-> Unset,
     typed |-> Unset, projection |-> Unset]

\* the projection lines
Projection(p) == [checks |-> p.checks, after |-> status_onepay(p.remaining)]

\* the printed dashboard and, for a balance above zero, the projection
DashboardLines(t, cash, typed, typical) ==
    [err        |-> "none",
     status     |-> status_onepay(t.bal),
     totals     |-> t,
     cash_after |-> [ok |-> ~FLtZero(cash), amount |-> Format2f(FAbs(cash))],
     typed      |-> typed,
     projection |-> IF FGtZero(t.bal) /\ FGtZero(typical)
                    THEN Projection(paychecks_to_green(t.bal, typical))
                    ELSE Unset]

\* typed is read only when the balance is above zero
DashboardTotals(t, typed) ==
    DashboardLines(t, Round2(FSub(FSub(t.income, t.bills), t.spend)),
                   IF FGtZero(t.bal) THEN typed ELSE Unset,
                   IF FGtZero(t.bal) THEN ProjectionInput(typed) ELSE FZero)

DashboardOf(v, agg, typed) ==
    IF agg.raised THEN DashboardError("ValueError")
    ELSE IF "status_onepay" \notin DefinedNames(v) THEN DashboardError("NameError")
    ELSE DashboardTotals(agg.ret, typed)

\* money_dashboard(rs) of variant v, the user typing `typed` if asked for
\* the typical paycheck: what is printed, or the exception that ends it
money_dashboard(v, rs, typed) ==
    IF "compute_balances" \notin DefinedNames(v) THEN DashboardError("NameError")
    ELSE DashboardOf(v, Aggregate("script", rs), typed)

\* "if kind not in KINDS" left out
KindAcceptedAny(kind) == TRUE

\* kind in KINDS
KindAccepted(kind) == kind \in KINDS

\* append_entry: the row csv.writer adds to the file
append_entry(st, kind, amount, note, date_str) ==
    Append(st, [date |-> date_str, kind |-> kind, amount |-> Format2f(amount),
                note |-> note])

\* the checks of prompt_add_entry on what was typed
AddChecked(st, kind, amount, note, date) ==
    IF ~KindAccepted(kind) THEN st
    ELSE IF ~amount.ok THEN st
    ELSE append_entry(st, kind, amount.v, note, IF date = <<>> THEN Today ELSE date)

\* prompt_add_entry: the ledger file afterwards
prompt_add_entry(st, kindIn, amtIn, noteIn, dateIn) ==
    AddChecked(st, Lower(Strip(kindIn)), parse_amount(Strip(amtIn)),
               Strip(noteIn), Strip(dateIn))

\* the rows list_recent is asked for
RecentCount == 10

\* rows[-n:]
LastRows(rs, n) == SubSeq(rs, MaxOf(1, Len(rs) - n + 1), Len(rs))

ListLines(last) ==
    IF \E i \in 1..Len(last) : ~parse_amount(last[i].amount).ok
    THEN [err |-> "ValueError", lines |-> <<>>]
    ELSE [err   |-> "none",
          lines |-> [i \in 1..Len(last) |->
                       [date   |-> last[i].date,
                        kind   |-> last[i].kind,
                        amount |-> Format2f(parse_amount(last[i].amount).v),
                        note   |-> last[i].note]]]

\* list_recent(rs, n): the lines printed, or the ValueError of parse_amount
list_recent(rs, n) == ListLines(LastRows(rs, n))

\* an exception nothing catches ends the process
AfterCall(before, err) ==
    IF err # "none" THEN "crashed"
    ELSE IF before = "once" THEN "exited"
    ELSE "menu"

\* the __main__ block: main(); variant "scripts" without a terminal shows
\* the dashboard once instead
Start ==
    /\ prog = "start"
    /\ prog' = IF variant = "scripts" /\ ~tty THEN "once" ELSE "menu"
    /\ UNCHANGED <<store, lastOp, typedKind, typedAmount, shown, tty, variant,
                   greenVars, aggVars>>

\* choice "1" of main, or the one dashboard of a run without a terminal:
\* rows = read_ledger(); money_dashboard(rows)
View ==
    /\ prog \in {"menu", "once"}
    /\ \E typed \in TypicalTyped :
          \E d \in {money_dashboard(variant, store, typed)} :
              /\ shown' = d
              /\ prog' = AfterCall(prog, d.err)
    /\ lastOp' = "view"
    /\ typedKind' = <<>>
    /\ typedAmount' = <<>>
    /\ UNCHANGED <<store, tty, variant, greenVars, aggVars>>

\* main: choice "2"
Menu_Add ==
    /\ prog = "menu"
    /\ Len(store) < MaxStore
    /\ \E kindIn \in KindTyped, amtIn \in AmountTyped, noteIn \in NoteTyped,
          dateIn \in DateTyped :
          /\ store' = prompt_add_entry(store, kindIn, amtIn, noteIn, dateIn)
          /\ typedKind' = kindIn
          /\ typedAmount' = amtIn
    /\ lastOp' = "add"
    /\ shown' = Unset
    /\ UNCHANGED <<prog, tty, variant, greenVars, aggVars>>

\* main: choice "3"
Menu_List ==
    /\ prog = "menu"
    /\ \E l \in {list_recent(store, RecentCount)} :
          /\ shown' = l
          /\ prog' = AfterCall(prog, l.err)
    /\ lastOp' = "list"
    /\ typedKind' = <<>>
    /\ typedAmount' = <<>>
    /\ UNCHANGED <<store, tty, variant, greenVars, aggVars>>

\* main: any other choice
Menu_Invalid ==
    /\ prog = "menu"
    /\ lastOp' = "invalid"
    /\ shown' = Unset
    /\ typedKind' = <<>>
    /\ typedAmount' = <<>>
    /\ UNCHANGED <<store, prog, tty, variant, greenVars, aggVars>>

\* main: choice "4"
Menu_Exit ==
    /\ prog = "menu"
    /\ prog' = "exited"
    /\ lastOp' = "exit"
    /\ shown' = Unset
    /\ typedKind' = <<>>
    /\ typedAmount' = <<>>
    /\ UNCHANGED <<store, tty, variant, greenVars, aggVars>>

(***************************************************************************)
(* Specifications.                                                         *)
(***************************************************************************)
GreenIdle ==
    /\ balance = FZero
    /\ typical_paycheck = FZero
    /\ remaining = Unset
    /\ checks = 0
    /\ pc = "idle"
    /\ result = Unset

AggIdle ==
    /\ rows = <<>>
    /\ idx = 1
    /\ totals = ZeroTotals
    /\ aggState = "idle"
    /\ aggResult = Unset

MenuIdle ==
    /\ tty = TRUE
    /\ store = <<>>
    /\ prog = "idle"
    /\ lastOp = "none"
    /\ typedKind = <<>>
    /\ typedAmount = <<>>
    /\ shown = Unset

\* paychecks_to_green on every pair of inputs
GreenInit ==
    /\ variant = "script"
    /\ balance \in BalanceInputs
    /\ typical_paycheck \in TypicalInputs
    /\ remaining = Unset
    /\ checks = 0
    /\ pc = "enter"
    /\ result = Unset
    /\ AggIdle
    /\ MenuIdle

GreenNext ==
    \/ PTG_Enter
    \/ PTG_Iterate
    \/ PTG_LoopExit
    \/ PTG_Return

GreenSpec == GreenInit /\ [][GreenNext]_vars

\* compute_balances and compute_net on every ledger
AggInit ==
    /\ variant \in Variants
    /\ rows \in LedgerInputs
    /\ idx = 1
    /\ totals = ZeroTotals
    /\ aggState = "running"
    /\ aggResult = Unset
    /\ GreenIdle
    /\ MenuIdle

AggNext ==
    \/ Agg_Row
    \/ Agg_Return

AggSpec == AggInit /\ [][AggNext]_vars

\* a run of the program on a ledger file that does not exist yet
MenuInit ==
    /\ variant \in Variants
    /\ tty \in (IF variant = "scripts" THEN BOOLEAN ELSE {TRUE})
    /\ store = <<>>
    /\ prog = "start"
    /\ lastOp = "none"
    /\ typedKind = <<>>
    /\ typedAmount = <<>>
    /\ shown = Unset
    /\ GreenIdle
    /\ AggIdle

MenuNext ==
    \/ Start
    \/ View
    \/ Menu_Add
    \/ Menu_List
    \/ Menu_Invalid
    \/ Menu_Exit

MenuSpec == MenuInit /\ [][MenuNext]_vars

(***************************************************************************)
(* The claims.                                                             *)
(***************************************************************************)
\* an amount of money in whole cents, as an integer
CentsOf(x) ==
    IF x.s = 1 THEN 0 - BToInt(FHundredths(x)) ELSE BToInt(FHundredths(x))

\* the smallest n with b - n * t <= 0, for b > 0 and t > 0 in cents
PaychecksNeeded(b, t) == (b + t - 1) \div t

\* C1: for balance > 0 and typical paycheck > 0 the loop runs at most 200
\* times, so neither the running count nor the returned count exceeds 200
C1_AtMost200Iterations ==
    (FGtZero(balance) /\ FGtZero(typical_paycheck)) =>
        /\ checks <= 200
        /\ pc = "done" => result.checks <= 200

\* the returned tuple for b, t in cents where n paychecks are needed
C2_Expected(b, t, n) == [checks |-> n, remaining |-> FromCents(b - n * t)]

\* C2: for balance > 0 and typical paycheck > 0 with the remainder turning
\* non-positive before the ceiling, the call returns (n, balance - n*typical)
\* for the smallest n >= 1 with balance - n*typical <= 0, and so a remainder
\* r with -typical < r <= 0
C2_SmallestCountAndRemainder ==
    (/\ pc = "done"
     /\ FGtZero(balance)
     /\ FGtZero(typical_paycheck)
     /\ PaychecksNeeded(CentsOf(balance), CentsOf(typical_paycheck)) <= 200) =>
        /\ result.checks = PaychecksNeeded(CentsOf(balance), CentsOf(typical_paycheck))
        /\ FEq(result.remaining,
               C2_Expected(CentsOf(balance), CentsOf(typical_paycheck),
                           result.checks).remaining)
        /\ FLeZero(result.remaining)
        /\ FGtZero(FAdd(result.remaining, typical_paycheck))

\* C3: with balance <= 0 or typical paycheck <= 0 the call never enters the
\* subtraction loop and returns count 0 with the balance itself
C3_NoProjectionReturnsBalance ==
    (FLeZero(balance) \/ FLeZero(typical_paycheck)) =>
        /\ pc \in {"idle", "enter", "done"}
        /\ remaining = Unset
        /\ checks = 0
        /\ pc = "done" => result = [checks |-> 0, remaining |-> balance]

\* (-10.00, 5.00) has returned (0, -10.00)
C3_Witness ==
    /\ pc = "done"
    /\ balance = FromCents(0 - 1000)
    /\ typical_paycheck = FromCents(500)
    /\ result = [checks |-> 0, remaining |-> FromCents(0 - 1000)]

\* an entry of a recognized kind with a numeric amount that is not negative
WellFormedRow(row) ==
    /\ RowKind(row) \in KINDS
    /\ parse_amount(row.amount).ok
    /\ ~FLtZero(parse_amount(row.amount).v)

WellFormed(rs) == \A i \in 1..Len(rs) : WellFormedRow(rs[i])

\* the amounts of the entries of one kind, added up in whole cents
RECURSIVE SumCents(_, _, _)
SumCents(rs, kind, i) ==
    IF i > Len(rs) THEN <<>>
    ELSE IF RowKind(rs[i]) = kind
    THEN BAdd(FHundredths(parse_amount(rs[i].amount).v), SumCents(rs, kind, i + 1))
    ELSE SumCents(rs, kind, i + 1)

\* plus - minus in cents, as an amount of money
CentsDifference(plus, minus) ==
    IF BCmp(plus, minus) >= 0 THEN FFromDecimal(0, BSub(plus, minus), 2)
    ELSE FFromDecimal(1, BSub(minus, plus), 2)

\* C4: for well-formed entries, in both variants, the income, bill and spend
\* totals are the sums of the paycheck, bill and spend amounts, and the
\* balance is the sum of the advances minus the sum of the paychecks
C4_TotalsAreSums ==
    (aggState = "returned" /\ WellFormed(rows)) =>
        /\ FEq(aggResult.income, FFromDecimal(0, SumCents(rows, S_paycheck, 1), 2))
        /\ FEq(aggResult.bills, FFromDecimal(0, SumCents(rows, S_bill, 1), 2))
        /\ FEq(aggResult.spend, FFromDecimal(0, SumCents(rows, S_spend, 1), 2))
        /\ FEq(aggResult.bal, CentsDifference(SumCents(rows, S_advance, 1),
                                              SumCents(rows, S_paycheck, 1)))

RemoveAt(rs, k) == SubSeq(rs, 1, k - 1) \o SubSeq(rs, k + 1, Len(rs))

\* the call ended as the call r did, where r returned
EndedAs(r) == r.raised \/ (aggState = "returned" /\ aggResult = r.ret)

\* C5: an entry of an unrecognized kind, whatever its amount field holds,
\* raises no error and leaves the four totals what they are for the sequence
\* without that entry
C5_UnknownKindIgnored ==
    aggState \in {"returned", "ValueError"} =>
        \A k \in 1..Len(rows) :
            RowKind(rows[k]) \notin KINDS =>
                EndedAs(Aggregate(variant, RemoveAt(rows, k)))

\* an entry of a recognized kind whose amount is not numeric
MalformedAmount(row) ==
    /\ RowKind(row) \in KINDS
    /\ ~parse_amount(row.amount).ok

\* C6: when an entry of a recognized kind has a non-numeric amount, at any
\* position, the call never gets past that entry and never returns totals:
\* it ends in the ValueError of parse_amount
C6_ParseErrorPropagates ==
    \A k \in 1..Len(rows) :
        MalformedAmount(rows[k]) =>
            /\ aggState \in {"running", "ValueError"}
            /\ aggResult = Unset
            /\ idx <= k

\* the ValueError raised at the third entry, after two that were added up
C6_Witness ==
    /\ aggState = "ValueError"
    /\ Len(rows) = 3
    /\ idx = 3
    /\ MalformedAmount(rows[3])
    /\ ~FIsZero(totals.income)

\* no total of the three non-negative ones is below zero
NonNegativeTotals(r) ==
    r.raised \/ (~FLtZero(r.ret.income) /\ ~FLtZero(r.ret.bills)
                    /\ ~FLtZero(r.ret.spend))

\* C7: after any add-entry operations from an empty store every stored
\* amount is non-negative, and so are the income, bill and spend totals
C7_StoredAmountsNonNegative ==
    /\ \A i \in 1..Len(store) : ~FLtZero(parse_amount(store[i].amount).v)
    /\ NonNegativeTotals(Aggregate(variant, store))

\* C8: the stored rows change only by an add-entry whose kind is one of the
\* four and whose amount is numeric, which appends exactly one row, of one
\* of the four kinds, and leaves the earlier rows as they were; a rejected
\* add-entry, view, list and an invalid choice leave the store unchanged
C8_StoreAppendOnly ==
    [][\/ store' = store
       \/ /\ lastOp' = "add"
          /\ Lower(Strip(typedKind')) \in KINDS
          /\ parse_amount(Strip(typedAmount')).ok
          /\ Len(store') = Len(store) + 1
          /\ SubSeq(store', 1, Len(store)) = store
          /\ store'[Len(store')].kind \in KINDS]_vars

\* an add-entry of kind "gift" was turned down after one row was stored
C8_Witness ==
    /\ lastOp = "add"
    /\ Len(store) = 1
    /\ Lower(Strip(typedKind)) \notin KINDS

Orderings(n) ==
    {p \in [1..n -> 1..n] : \A i, j \in 1..n : i # j => p[i] # p[j]}

\* C9: for well-formed entries every permutation of the sequence gives the
\* same four returned values
C9_OrderIndependent ==
    (aggState = "returned" /\ WellFormed(rows)) =>
        \A p \in Orderings(Len(rows)) :
            Aggregate(variant, [i \in 1..Len(rows) |-> rows[p[i]]])
                = [raised |-> FALSE, ret |-> aggResult]

\* the projection is due: the balance is above zero and so is the typical
\* paycheck typed, an empty or malformed text counting as none
ProjectionDue(d) ==
    /\ FGtZero(d.totals.bal)
    /\ parse_amount(IF d.typed = <<>> THEN S_0 ELSE d.typed).ok
    /\ FGtZero(parse_amount(IF d.typed = <<>> THEN S_0 ELSE d.typed).v)

\* C10: in both variants View dashboard on a store of well-formed rows
\* completes without error, back in the menu or at the end of the run
\* without a terminal, and shows the projection exactly when the balance
\* and the typical paycheck typed are above zero
C10_ViewCompletes ==
    (lastOp = "view" /\ WellFormed(store)) =>
        /\ shown.err = "none"
        /\ prog \in {"menu", "exited"}
        /\ (shown.projection # Unset) <=> ProjectionDue(shown)

=============================================================================
